---- MODULE Spec2Model ----
(***************************************************************************)
(* Authentication and token lifecycle of boilerplate-gin-dat.              *)
(*                                                                         *)
(* The credential store is the users table; every service call of          *)
(* AuthService is a short sequence of store accesses (a lookup, then a     *)
(* Create or a full-row Save).  ServiceStep is one store access of one     *)
(* call.  Spec runs every call to completion in one step (requests served  *)
(* one after another); ConcSpec interleaves the store accesses of calls    *)
(* that are in flight together (requests served by concurrent goroutines); *)
(* TokenSpec presents bearer tokens to ValidateToken.  SessionSpec is Spec *)
(* with the clock standing still, StoreSpec adds the deletion of users,    *)
(* FaultSpec the failures of Register's store accesses.  MetricsSpec and   *)
(* RecordSpec are the request counters, served serially and concurrently;  *)
(* RateSpec and RateConcSpec the rate limiting middleware, likewise.       *)
(*                                                                         *)
(* Time is counted in minutes.  Strings produced by crypto/rand are        *)
(* modelled as values never produced before (1, 2, 3, ...); 0 is the empty *)
(* string.  A bcrypt hash is its "$2a$10$" prefix followed by what it      *)
(* hashes; its salt is never compared and is left out.  A JSON object is   *)
(* the set of its <<key, value>> members; JSON null has none.              *)
(* The database, bcrypt and crypto/rand are taken to answer: the I/O       *)
(* errors that every call wraps and returns are left out, except in        *)
(* FaultSpec, where the store accesses of Register may fail.  The process  *)
(* runs with the configuration that ValidateConfig accepted at startup.    *)
(***************************************************************************)
EXTENDS Integers, Sequences, FiniteSets, TLC

VARIABLES
    users,      \* the users table: a set of rows
    nextID,     \* the next primary key the table hands out
    nTokens,    \* how many random tokens crypto/rand has produced
    now,        \* the clock, in minutes
    config,     \* process-wide configuration: JWT_SECRET
    calls,      \* the service call of each worker: idle, in flight or done
    resp,       \* the service call that completed last: request and result
    hist,       \* history: what has been issued and consumed so far
    metrics,    \* the request counters of package metrics
    served,     \* history: the status codes recorded since the last Reset
    globalLimiter,  \* the IPRateLimiter: burst size, limiter of each IP
    limiters,   \* the rate.Limiter objects made so far: tokens in the bucket
    traffic     \* history: the rate limiter's answers, and the refills

vars ==
    <<users, nextID, nTokens, now, config, calls, resp, hist, metrics, served,
      globalLimiter, limiters, traffic>>

\* the state of the rate limiting middleware
rateVars == <<globalLimiter, limiters, traffic>>

---------------------------------------------------------------------------
(* Bounds of the model *)

MaxTokens == 3
MaxTime == 1
MaxWorkers == 2
MaxRequests == 3
MaxBurst == 2
MaxArrivals == 4
MaxRefills == 1

(* Program constants, in minutes *)
ResetTokenTTL == 15
AccessTokenTTL == 1440

(* the burst size of the global rate limiter *)
DefaultBurst == 200

Emails == {"a@x.io", "b@x.io"}
Passwords == {"Passw0rd-one", "Passw0rd-two"}
Names == {"John Doe"}
Workers == 1..MaxWorkers
TokenStrings == 0..MaxTokens
\* the instants at which requests arrive: the start, then a minute before,
\* at, and up to MaxTime minutes after the expiry of a reset token of the start
LastInstant == ResetTokenTTL + MaxTime
NextInstant(t) == IF t < ResetTokenTTL - 1 THEN ResetTokenTTL - 1 ELSE t + 1

---------------------------------------------------------------------------
(* Errors of the auth service *)

OK == "nil"
ErrEmailAlreadyExists == "email already exists"
ErrInvalidCredentials == "invalid email or password"
ErrUserNotFound == "user not found"
ErrInvalidRefreshToken == "invalid or expired refresh token"
ErrInvalidResetToken == "invalid or expired reset token"
ErrResetTokenExpired == "reset token has expired"
ErrSecretNotConfigured == "JWT secret not configured"
ErrInvalidUserID == "invalid user_id in token"
ErrInvalidToken == "invalid token"
ErrDuplicateKey == "duplicate key value violates unique constraint"
ErrBadConn == "driver: bad connection"
ErrRandRead == "failed to generate random token: unexpected EOF"

\* fmt.Errorf("<context>: %w", err)
Internal(context, cause) == context \o ": " \o cause

---------------------------------------------------------------------------
(* models.User and the repository *)

Nil == [ID |-> 0]
NoExpiry == -1

NewUser(name, email, hashed) ==
    [ID |-> 0, Name |-> name, Email |-> email, Password |-> hashed,
     RefreshToken |-> 0, PasswordResetToken |-> 0,
     PasswordResetExpiry |-> NoExpiry]

\* gorm's First: the matching row with the smallest primary key, or nil
First(rows) ==
    IF rows = {} THEN Nil
    ELSE CHOOSE u \in rows : \A v \in rows : u.ID <= v.ID

\* a lookup by email that finds nothing
NoUserByEmail(db, email) == Nil

GetUserByEmail(db, email) == First({u \in db : u.Email = email})

GetUserByRefreshToken(db, token) ==
    First({u \in db : u.RefreshToken = token})

GetUserByPasswordResetToken(db, token) ==
    First({u \in db : u.PasswordResetToken = token})

\* INSERT: the unique index on email refuses a second row with the email
CreateUser(db, user, id) ==
    IF \E u \in db : u.Email = user.Email
    THEN [db |-> db, user |-> user, err |-> ErrDuplicateKey]
    ELSE [db |-> db \cup {[user EXCEPT !.ID = id]},
          user |-> [user EXCEPT !.ID = id], err |-> OK]

\* gorm's Save: writes every column of the row with user's primary key
UpdateUser(db, user) == {u \in db : u.ID # user.ID} \cup {user}

\* a delete that leaves the row where every lookup still finds it
KeepRow(db, id) == db

\* gorm's Delete by primary key.  User.DeletedAt is a *time.Time, not a
\* gorm.DeletedAt, so gorm issues a DELETE and the row is gone
DeleteUser(db, id) == {u \in db : u.ID # id}

---------------------------------------------------------------------------
(* Password hasher and token issuers *)

\* a hasher that hands the password back as it came
StorePlaintext(password) == password

\* bcrypt.GenerateFromPassword at the default cost
hashPassword(password) == "$2a$10$" \o password

\* a comparison that accepts every password
AcceptAnyPassword(hashed, password) == TRUE

\* bcrypt.CompareHashAndPassword: nil iff the hash was made from password
verifyPassword(hashed, password) == hashed = "$2a$10$" \o password

\* a token string that is no JWT
Malformed == [segments |-> 1]

\* a token string of three segments: the algorithm of its header, the key
\* that signed it ("" when unsigned), its claims
SignedString(alg, key, claims) ==
    [segments |-> 3, alg |-> alg, key |-> key, claims |-> claims]

generateToken(cfg, user, t) ==
    IF cfg.JWT_SECRET = ""
    THEN [token |-> Malformed, err |-> ErrSecretNotConfigured]
    ELSE [token |-> SignedString("HS256", cfg.JWT_SECRET,
                        [email |-> user.Email, user_id |-> user.ID,
                         exp |-> t + AccessTokenTTL, iat |-> t]),
          err |-> OK]

\* a generator that hands out the string it produced last
RepeatLastToken(n) == n

\* 32 bytes of crypto/rand, hex encoded: a string not produced before
generateRefreshToken(n) == n + 1

generatePasswordResetToken(n) == n + 1

\* the signing methods of type *jwt.SigningMethodHMAC
SigningMethodHMAC == {"HS256", "HS384", "HS512"}

\* a parser that decodes the token and verifies neither its signing method
\* nor its signature nor its expiry
ParseUnverified(tokenString, secret, t) ==
    IF tokenString.segments # 3
    THEN [err |-> "token is malformed: token contains an invalid number of segments",
          Valid |-> FALSE]
    ELSE [err |-> OK,
          Valid |-> TRUE]

\* jwt.Parse with the key function of ValidateToken (golang-jwt v5): the
\* segments are decoded, the key function checks the signing method, the
\* signature is verified with the secret, then the claims are validated
jwtParse(tokenString, secret, t) ==
    IF tokenString.segments # 3
    THEN [err |-> "token is malformed: token contains an invalid number of segments",
          Valid |-> FALSE]
    ELSE IF tokenString.alg \notin SigningMethodHMAC
    THEN [err |-> "token is unverifiable: error while executing keyfunc: unexpected signing method: "
                      \o tokenString.alg,
          Valid |-> FALSE]
    ELSE IF tokenString.key # secret
    THEN [err |-> "token signature is invalid: signature is invalid",
          Valid |-> FALSE]
    ELSE IF "exp" \in DOMAIN tokenString.claims /\ t >= tokenString.claims.exp
    THEN [err |-> "token has invalid claims: token is expired",
          Valid |-> FALSE]
    ELSE [err |-> OK,
          Valid |-> TRUE]

\* AuthService.ValidateToken: the user ID of the token, or an error
ValidateToken(cfg, tokenString, t) ==
    LET token == jwtParse(tokenString, cfg.JWT_SECRET, t) IN
    IF cfg.JWT_SECRET = ""
    THEN [err |-> ErrSecretNotConfigured, userID |-> 0]
    ELSE IF token.err # OK
    THEN [err |-> Internal("failed to parse token", token.err), userID |-> 0]
    ELSE IF ~token.Valid
    THEN [err |-> ErrInvalidToken, userID |-> 0]
    ELSE IF "user_id" \notin DOMAIN tokenString.claims
    THEN [err |-> ErrInvalidUserID, userID |-> 0]
    ELSE [err |-> OK, userID |-> tokenString.claims.user_id]

---------------------------------------------------------------------------
(* One service call: its request, where it stands, its local user *)

\* faults: the accesses of this call that the database, or the random
\* source, answers with an error
NewCall(op, req) ==
    [user |-> Nil, err |-> OK, op |-> op, req |-> req, pc |-> "lookup",
     out |-> Nil, faults |-> {}]

Failing(c, faults) == [c EXCEPT !.faults = faults]

Idle == [op |-> "idle", pc |-> "idle"]

\* the call returns: err is a sentinel error, or a wrapped internal one
Return(c, err, out) == [c EXCEPT !.pc = "done", !.err = err, !.out = out]

\* what one store access of a call leaves behind
After(db, id, n, c) == [nextID |-> id, nTokens |-> n, db |-> db, call |-> c]

---------------------------------------------------------------------------
(* AuthService.Register *)

RegisterStep(db, id, n, t, cfg, c) ==
    CASE c.pc = "lookup" ->
            LET existingUser == GetUserByEmail(db, c.req.Email) IN
            IF "GetUserByEmail" \in c.faults
            THEN After(db, id, n,
                       Return(c, Internal("failed to check email", ErrBadConn),
                              Nil))
            ELSE IF existingUser # Nil
            THEN After(db, id, n, Return(c, ErrEmailAlreadyExists, Nil))
            ELSE After(db, id, n,
                       [c EXCEPT !.pc = "create",
                                 !.user = NewUser(c.req.Name, c.req.Email,
                                              hashPassword(c.req.Password))])
      [] c.pc = "create" ->
            LET made == IF "CreateUser" \in c.faults
                        THEN [db |-> db, user |-> c.user, err |-> ErrBadConn]
                        ELSE CreateUser(db, c.user, id)
                access == generateToken(cfg, made.user, t)
                refreshToken == generateRefreshToken(n)
            IN  IF made.err # OK
                THEN After(db, id, n,
                       Return(c, Internal("failed to create user", made.err), Nil))
                ELSE IF access.err # OK
                THEN After(made.db, id + 1, n,
                       Return([c EXCEPT !.user = made.user],
                              Internal("failed to generate access token",
                                       access.err), Nil))
                ELSE IF "rand.Read" \in c.faults
                THEN After(made.db, id + 1, n,
                       Return([c EXCEPT !.user = made.user],
                              Internal("failed to generate refresh token",
                                       ErrRandRead), Nil))
                ELSE After(made.db, id + 1, refreshToken,
                       [c EXCEPT !.pc = "save",
                                 !.user = [made.user EXCEPT
                                              !.RefreshToken = refreshToken],
                                 !.out = [RefreshToken |-> refreshToken,
                                          User |-> [ID |-> made.user.ID,
                                                    Name |-> made.user.Name,
                                                    Email |-> made.user.Email],
                                          AccessToken |-> access.token,
                                          TokenType |-> "Bearer"]])
      [] c.pc = "save" ->
            IF "UpdateUser" \in c.faults
            THEN After(db, id, n,
                       Return(c, Internal("failed to save refresh token",
                                          ErrBadConn), Nil))
            ELSE After(UpdateUser(db, c.user), id, n, Return(c, OK, c.out))

---------------------------------------------------------------------------
(* AuthService.Login *)

\* a Login that hands out a refresh token it does not store
LoginWithoutStoring(user, refreshToken) == user

\* user.RefreshToken = refreshToken, ahead of the Save
IssueRefreshToken(user, refreshToken) ==
    [user EXCEPT !.RefreshToken = refreshToken]

\* a Login that signs the user out when the password is wrong
LoginSigningOutOnFailure(db, id, n, t, cfg, c) ==
    CASE c.pc = "lookup" ->
            LET user == GetUserByEmail(db, c.req.Email)
                access == generateToken(cfg, user, t)
                refreshToken == generateRefreshToken(n)
            IN  IF user = Nil
                THEN After(db, id, n, Return(c, ErrInvalidCredentials, Nil))
                ELSE IF ~verifyPassword(user.Password, c.req.Password)
                THEN After(UpdateUser(db, IssueRefreshToken(user, 0)), id, n,
                           Return(c, ErrInvalidCredentials, Nil))
                ELSE IF access.err # OK
                THEN After(db, id, n,
                       Return(c, Internal("failed to generate access token",
                                          access.err), Nil))
                ELSE After(db, id, refreshToken,
                       [c EXCEPT !.pc = "save",
                                 !.user = IssueRefreshToken(user, refreshToken),
                                 !.out = [RefreshToken |-> refreshToken,
                                          User |-> [ID |-> user.ID,
                                                    Name |-> user.Name,
                                                    Email |-> user.Email],
                                          AccessToken |-> access.token,
                                          TokenType |-> "Bearer"]])
      [] c.pc = "save" ->
            After(UpdateUser(db, c.user), id, n, Return(c, OK, c.out))

LoginStep(db, id, n, t, cfg, c) ==
    CASE c.pc = "lookup" ->
            LET user == GetUserByEmail(db, c.req.Email)
                access == generateToken(cfg, user, t)
                refreshToken == generateRefreshToken(n)
            IN  IF user = Nil
                THEN After(db, id, n, Return(c, ErrInvalidCredentials, Nil))
                ELSE IF ~verifyPassword(user.Password, c.req.Password)
                THEN After(db, id, n, Return(c, ErrInvalidCredentials, Nil))
                ELSE IF access.err # OK
                THEN After(db, id, n,
                       Return(c, Internal("failed to generate access token",
                                          access.err), Nil))
                ELSE After(db, id, refreshToken,
                       [c EXCEPT !.pc = "save",
                                 !.user = IssueRefreshToken(user, refreshToken),
                                 !.out = [RefreshToken |-> refreshToken,
                                          User |-> [ID |-> user.ID,
                                                    Name |-> user.Name,
                                                    Email |-> user.Email],
                                          AccessToken |-> access.token,
                                          TokenType |-> "Bearer"]])
      [] c.pc = "save" ->
            After(UpdateUser(db, c.user), id, n, Return(c, OK, c.out))

---------------------------------------------------------------------------
(* AuthService.RefreshToken *)

\* an exchange that leaves the presented token in the row
KeepPresentedToken(user, newRefreshToken) == user

\* user.RefreshToken = newRefreshToken, ahead of the Save
RotateRefreshToken(user, newRefreshToken) ==
    [user EXCEPT !.RefreshToken = newRefreshToken]

RefreshTokenStep(db, id, n, t, cfg, c) ==
    CASE c.pc = "lookup" ->
            LET user == GetUserByRefreshToken(db, c.req.RefreshToken)
                access == generateToken(cfg, user, t)
                newRefreshToken == generateRefreshToken(n)
            IN  IF user = Nil
                THEN After(db, id, n, Return(c, ErrInvalidRefreshToken, Nil))
                ELSE IF access.err # OK
                THEN After(db, id, n,
                       Return(c, Internal("failed to generate new access token",
                                          access.err), Nil))
                ELSE After(db, id, newRefreshToken,
                       [c EXCEPT !.pc = "save",
                                 !.user = RotateRefreshToken(user,
                                                             newRefreshToken),
                                 !.out = [RefreshToken |-> newRefreshToken,
                                          AccessToken |-> access.token,
                                          TokenType |-> "Bearer"]])
      [] c.pc = "save" ->
            After(UpdateUser(db, c.user), id, n, Return(c, OK, c.out))

---------------------------------------------------------------------------
(* AuthService.ForgotPassword *)

\* a ForgotPassword that leaves a pending reset as it is
KeepPendingReset(user, resetToken, t) ==
    IF user.PasswordResetToken # 0 THEN user
    ELSE [user EXCEPT !.PasswordResetToken = resetToken,
                      !.PasswordResetExpiry = t + ResetTokenTTL]

\* a ForgotPassword that signs the user out as well
SetPasswordResetAndSignOut(user, resetToken, t) ==
    [user EXCEPT !.RefreshToken = 0,
                 !.PasswordResetToken = resetToken,
                 !.PasswordResetExpiry = t + ResetTokenTTL]

\* expiry := time.Now().Add(15 * time.Minute); both reset fields are set
SetPasswordReset(user, resetToken, t) ==
    [user EXCEPT !.PasswordResetToken = resetToken,
                 !.PasswordResetExpiry = t + ResetTokenTTL]

ForgotPasswordStep(db, id, n, t, cfg, c) ==
    CASE c.pc = "lookup" ->
            LET user == GetUserByEmail(db, c.req.Email)
                resetToken == generatePasswordResetToken(n)
            IN  IF user = Nil
                THEN After(db, id, n, Return(c, ErrUserNotFound, 0))
                ELSE After(db, id, resetToken,
                       [c EXCEPT !.pc = "save",
                                 !.user = SetPasswordReset(user, resetToken, t),
                                 !.out = resetToken])
      [] c.pc = "save" ->
            After(UpdateUser(db, c.user), id, n, Return(c, OK, c.out))

---------------------------------------------------------------------------
(* AuthService.ResetPassword *)

\* an expiry check that is inclusive: !time.Now().Before(expiry)
ExpiredAtExpiry(user, t) ==
    user.PasswordResetExpiry = NoExpiry \/ t >= user.PasswordResetExpiry

\* user.PasswordResetExpiry == nil || time.Now().After(*user.PasswordResetExpiry)
ResetTokenHasExpired(user, t) ==
    user.PasswordResetExpiry = NoExpiry \/ t > user.PasswordResetExpiry

\* a reset that clears the reset fields and leaves the Password as it was
ClearPasswordResetOnly(user, hashedPassword) ==
    [user EXCEPT !.PasswordResetToken = 0,
                 !.PasswordResetExpiry = NoExpiry]

\* a reset that stores the new hash and leaves the reset fields set
KeepPasswordReset(user, hashedPassword) ==
    [user EXCEPT !.Password = hashedPassword]

\* the new hash is stored and both reset fields are cleared
ConsumePasswordReset(user, hashedPassword) ==
    [user EXCEPT !.Password = hashedPassword,
                 !.PasswordResetToken = 0,
                 !.PasswordResetExpiry = NoExpiry]

\* a ResetPassword that sweeps the reset it finds expired out of the row
ResetPasswordSweeping(db, id, n, t, cfg, c) ==
    CASE c.pc = "lookup" ->
            LET user == GetUserByPasswordResetToken(db, c.req.Token) IN
            IF user = Nil
            THEN After(db, id, n, Return(c, ErrInvalidResetToken, Nil))
            ELSE IF ResetTokenHasExpired(user, t)
            THEN After(UpdateUser(db, [user EXCEPT
                                         !.PasswordResetToken = 0,
                                         !.PasswordResetExpiry = NoExpiry]),
                       id, n,
                       Return([c EXCEPT !.user = user],
                              ErrResetTokenExpired, Nil))
            ELSE After(db, id, n,
                       [c EXCEPT !.pc = "save",
                                 !.user = ConsumePasswordReset(user,
                                            hashPassword(c.req.NewPassword))])
      [] c.pc = "save" ->
            After(UpdateUser(db, c.user), id, n, Return(c, OK, Nil))

ResetPasswordStep(db, id, n, t, cfg, c) ==
    CASE c.pc = "lookup" ->
            LET user == GetUserByPasswordResetToken(db, c.req.Token) IN
            IF user = Nil
            THEN After(db, id, n, Return(c, ErrInvalidResetToken, Nil))
            ELSE IF ResetTokenHasExpired(user, t)
            THEN After(db, id, n,
                       Return([c EXCEPT !.user = user],
                              ErrResetTokenExpired, Nil))
            ELSE After(db, id, n,
                       [c EXCEPT !.pc = "save",
                                 !.user = ConsumePasswordReset(user,
                                            hashPassword(c.req.NewPassword))])
      [] c.pc = "save" ->
            After(UpdateUser(db, c.user), id, n, Return(c, OK, Nil))

---------------------------------------------------------------------------
(* A call's next store access, and a call run from its start to its return *)

ServiceStep(db, id, n, t, cfg, c) ==
    CASE c.op = "Register" -> RegisterStep(db, id, n, t, cfg, c)
      [] c.op = "Login" -> LoginStep(db, id, n, t, cfg, c)
      [] c.op = "RefreshToken" -> RefreshTokenStep(db, id, n, t, cfg, c)
      [] c.op = "ForgotPassword" -> ForgotPasswordStep(db, id, n, t, cfg, c)
      [] c.op = "ResetPassword" -> ResetPasswordStep(db, id, n, t, cfg, c)

RECURSIVE RunToReturn(_, _, _)
RunToReturn(s, t, cfg) ==
    IF s.call.pc = "done" THEN s
    ELSE RunToReturn(ServiceStep(s.db, s.nextID, s.nTokens, t, cfg, s.call),
                     t, cfg)

ServiceCall(db, id, n, t, cfg, c) ==
    RunToReturn(After(db, id, n, c), t, cfg)

---------------------------------------------------------------------------
(* The HTTP responses of the controllers and of AuthMiddleware *)

JSONNull == {}

\* c.JSON(code, types.ErrorResponse{...}); no err here is a validator error
HandleErrors(code, err, message) ==
    [code |-> code, message |-> message, success |-> FALSE,
     data |-> JSONNull,
     errors |-> {<<"error", IF err # OK THEN err ELSE message>>}]

\* c.JSON(code, types.SuccessResponse{...})
HandleSuccess(code, data, message) ==
    [code |-> code, message |-> message, success |-> TRUE, data |-> data,
     errors |-> JSONNull]

Ok(data, message) == HandleSuccess(200, data, message)
Created(data, message) == HandleSuccess(201, data, message)
BadRequest(err, message) == HandleErrors(400, err, message)
Unauthorized(err, message) == HandleErrors(401, err, message)
Conflict(err, message) == HandleErrors(409, err, message)
InternalServerError(err, message) == HandleErrors(500, err, message)

\* dto.AuthResponse as JSON
AuthResponse(out) ==
    {<<"user", out.User>>, <<"access_token", out.AccessToken>>,
     <<"refresh_token", out.RefreshToken>>, <<"token_type", out.TokenType>>}

\* the controllers, from the return of the service call c on (the requests
\* of the model all pass ShouldBindJSON)
RegisterController(c) ==
    IF c.err = ErrEmailAlreadyExists
    THEN Conflict(c.err, "Email already exists")
    ELSE IF c.err # OK
    THEN InternalServerError(c.err, "Failed to register user")
    ELSE Created(AuthResponse(c.out), "User registered successfully")

LoginController(c) ==
    IF c.err = ErrInvalidCredentials
    THEN Unauthorized(c.err, "Invalid email or password")
    ELSE IF c.err # OK
    THEN InternalServerError(c.err, "Failed to authenticate user")
    ELSE Ok(AuthResponse(c.out), "Login successful")

\* production is config.IsProduction()
ForgotPasswordController(production, c) ==
    IF c.err = ErrUserNotFound
    THEN Ok(JSONNull,
            "If the email exists, a password reset link has been sent")
    ELSE IF c.err # OK
    THEN InternalServerError(c.err, "Failed to process request")
    ELSE IF production
    THEN Ok({<<"message", "Password reset instructions sent to email">>},
            "Password reset initiated")
    ELSE Ok({<<"message", "Password reset instructions sent to email">>,
             <<"token", c.out>>},
            "Password reset initiated")

\* a middleware that validates the second word of the header whatever the
\* first word is
AnyScheme(cfg, authHeader, t) ==
    LET validated == ValidateToken(cfg, authHeader[2], t) IN
    IF authHeader = <<>>
    THEN [user_id |-> 0, next |-> FALSE,
          response |-> Unauthorized(OK, "Authorization header required")]
    ELSE IF Len(authHeader) # 2
    THEN [user_id |-> 0, next |-> FALSE,
          response |-> Unauthorized(OK,
                           "Invalid authorization header format")]
    ELSE IF validated.err # OK
    THEN [user_id |-> 0, next |-> FALSE,
          response |-> Unauthorized(validated.err,
                                    "Invalid or expired token")]
    ELSE [user_id |-> validated.userID, next |-> TRUE,
          response |-> JSONNull]

\* the Authorization header as strings.Split(authHeader, " ") sees it:
\* <<>> is the empty header.  next: the handler behind the middleware runs
AuthMiddleware(cfg, authHeader, t) ==
    LET validated == ValidateToken(cfg, authHeader[2], t) IN
    IF authHeader = <<>>
    THEN [user_id |-> 0, next |-> FALSE,
          response |-> Unauthorized(OK, "Authorization header required")]
    ELSE IF Len(authHeader) # 2 \/ authHeader[1] # "Bearer"
    THEN [user_id |-> 0, next |-> FALSE,
          response |-> Unauthorized(OK,
                           "Invalid authorization header format")]
    ELSE IF validated.err # OK
    THEN [user_id |-> 0, next |-> FALSE,
          response |-> Unauthorized(validated.err,
                                    "Invalid or expired token")]
    ELSE [user_id |-> validated.userID, next |-> TRUE,
          response |-> JSONNull]

---------------------------------------------------------------------------
(* Package metrics and MetricsMiddleware *)

\* the counters as the process starts
NoRequests == [totalRequests |-> 0, successRequests |-> 0, errorRequests |-> 0]

\* an add that only the first request makes
CountFirstRequestOnly(m) ==
    [m EXCEPT !.totalRequests = IF @ = 0 THEN 1 ELSE @]

\* atomic.AddInt64(&totalRequests, 1)
CountRequest(m) == [m EXCEPT !.totalRequests = @ + 1]

\* the counter of the status code's class, if it has one
CountStatus(m, statusCode) ==
    IF statusCode >= 200 /\ statusCode < 400
    THEN [m EXCEPT !.successRequests = @ + 1]
    ELSE IF statusCode >= 400
    THEN [m EXCEPT !.errorRequests = @ + 1]
    ELSE m

\* a RecordRequest that takes only 2xx for a success
RecordOnly2xxAsSuccess(m, statusCode) ==
    IF statusCode >= 200 /\ statusCode < 300
    THEN [CountRequest(m) EXCEPT !.successRequests = @ + 1]
    ELSE IF statusCode >= 400
    THEN [CountRequest(m) EXCEPT !.errorRequests = @ + 1]
    ELSE CountRequest(m)

RecordRequest(m, statusCode) == CountStatus(CountRequest(m), statusCode)

\* the status codes c.Writer.Status() reports once a handler has answered:
\* HTTP status codes of every class, and those next to the class borders
StatusCodes == {101, 200, 204, 302, 399, 400, 404, 500, 599}

---------------------------------------------------------------------------
(* Rate limiting: IPRateLimiter and RateLimitMiddleware.  A rate.Limiter   *)
(* is a token bucket; the model counts whole tokens, and time passes in    *)
(* steps of the time that refills one token.                               *)

IPs == {"10.0.0.1", "10.0.0.2"}

\* NewIPRateLimiter(r, b): no limiter for any IP (0: no entry in the map)
NewIPRateLimiter(b) == [b |-> b, ips |-> [ip \in IPs |-> 0]]

\* rate.NewLimiter(r, b): the bucket starts full
NewLimiter(b) == b

\* GetLimiter, under the write lock: the limiter of ip, made when the map
\* has none.  objs holds the rate.Limiter objects made so far; a limiter is
\* referred to by its place in objs.
GetLimiter(g, objs, ip) ==
    IF g.ips[ip] # 0
    THEN [globalLimiter |-> g, limiters |-> objs, limiter |-> g.ips[ip]]
    ELSE [globalLimiter |-> [g EXCEPT !.ips[ip] = Len(objs) + 1],
          limiters |-> Append(objs, NewLimiter(g.b)),
          limiter |-> Len(objs) + 1]

\* an Allow that lets a request pass an empty bucket
AllowAtZero(objs, l) ==
    IF objs[l] >= 0
    THEN [limiters |-> [objs EXCEPT ![l] = IF @ > 0 THEN @ - 1 ELSE @],
          ok |-> TRUE]
    ELSE [limiters |-> objs, ok |-> FALSE]

\* limiter.Allow(): takes one token if the bucket holds one
Allow(objs, l) ==
    IF objs[l] >= 1
    THEN [limiters |-> [objs EXCEPT ![l] = @ - 1], ok |-> TRUE]
    ELSE [limiters |-> objs, ok |-> FALSE]

\* CleanupOldLimiters, under the write lock: the map without the limiters
\* whose bucket is full
CleanupOldLimiters(g, objs) ==
    [g EXCEPT !.ips = [ip \in IPs |->
                          IF g.ips[ip] # 0 /\ objs[g.ips[ip]] = g.b
                          THEN 0 ELSE g.ips[ip]]]

\* the buckets once the time that refills one token has passed
Refilled(g, objs) ==
    [l \in DOMAIN objs |-> IF objs[l] < g.b THEN objs[l] + 1 ELSE objs[l]]

TooManyRequests(err, message) == HandleErrors(429, err, message)

\* the middleware's answer given what Allow said: the request goes on to
\* the handler, or is answered with 429 and aborted
RateLimitAnswer(ok) ==
    IF ~ok
    THEN [next |-> FALSE,
          response |-> TooManyRequests(OK,
                           "Rate limit exceeded. Please try again later.")]
    ELSE [next |-> TRUE, response |-> JSONNull]

\* the whole handler for a request from ip
RateLimitMiddlewareWithConfig(g, objs, ip) ==
    LET got == GetLimiter(g, objs, ip)
        allowed == Allow(got.limiters, got.limiter)
    IN  [globalLimiter |-> got.globalLimiter, limiters |-> allowed.limiters,
         ctx |-> RateLimitAnswer(allowed.ok)]

\* history: the answers to each IP's requests so far, in order, and how
\* many times a token has been refilled
NoTraffic == [answers |-> [ip \in IPs |-> <<>>], refills |-> 0]

Answered(log, ip, ctx) == [log EXCEPT !.answers[ip] = Append(@, ctx)]

\* how many requests there have been so far
Arrivals == Len(traffic.answers["10.0.0.1"]) + Len(traffic.answers["10.0.0.2"])

---------------------------------------------------------------------------
(* History: what the calls completed so far have issued and consumed *)

NoHistory ==
    [issued |-> {}, latest |-> {}, exchanged |-> {}, consumed |-> {},
     replaced |-> {}, deleted |-> {}]

\* the refresh token a completed call handed to the client of user id
Issue(h, id, token) ==
    [h EXCEPT !.issued = @ \cup {<<id, token>>},
              !.latest = {p \in @ : p[1] # id} \cup {<<id, token>>}]

\* db is the table the call's last store access found.  exchanged: the refresh tokens successfully exchanged; consumed: the
\* reset tokens successfully used; replaced: the pending reset tokens a
\* later ForgotPassword overwrote
Record(h, db, c) ==
    IF c.pc # "done" \/ c.err # OK THEN h
    ELSE CASE c.op \in {"Register", "Login"} ->
                Issue(h, c.user.ID, c.out.RefreshToken)
           [] c.op = "RefreshToken" ->
                [Issue(h, c.user.ID, c.out.RefreshToken)
                    EXCEPT !.exchanged = @ \cup {c.req.RefreshToken}]
           [] c.op = "ForgotPassword" ->
                [h EXCEPT !.replaced = @ \cup
                    {u.PasswordResetToken : u \in
                        {v \in db : v.ID = c.user.ID
                                    /\ v.PasswordResetToken # 0}}]
           [] c.op = "ResetPassword" ->
                [h EXCEPT !.consumed = @ \cup {c.req.Token}]

\* what is kept of a completed call: its user's ID, its error, its request
\* and, of a ResetPassword that found a user in db at time t, the minutes
\* the user's reset token had left and the Password the user had
Completed(c, db, t) ==
    [user |-> c.user.ID, err |-> c.err, req |-> c.req,
     left |-> IF c.op = "ResetPassword"
              THEN {u.PasswordResetExpiry - t : u \in
                       {v \in db : v.ID = c.user.ID}}
              ELSE {},
     was |-> IF c.op = "ResetPassword"
             THEN {u.Password : u \in {v \in db : v.ID = c.user.ID}}
             ELSE {}]

NoCall ==
    [user |-> 0, err |-> OK, req |-> [op |-> "none"], left |-> {},
     was |-> {}]

---------------------------------------------------------------------------
(* The requests of the model *)

RegisterRequests ==
    {[Name |-> name, Email |-> email, Password |-> password,
      op |-> "Register"] :
        name \in Names, email \in Emails, password \in Passwords}

LoginRequests ==
    {[Email |-> email, Password |-> password, op |-> "Login"] :
        email \in Emails, password \in Passwords}

RefreshTokenRequests ==
    {[RefreshToken |-> token, op |-> "RefreshToken"] : token \in TokenStrings}

ForgotPasswordRequests ==
    {[Email |-> email, op |-> "ForgotPassword"] : email \in Emails}

ResetPasswordRequests ==
    {[op |-> "ResetPassword", Token |-> token, NewPassword |-> password] :
        token \in TokenStrings, password \in Passwords}

\* JWT_SECRET as viper reads it once ValidateConfig has passed at startup:
\* set, and at least 32 characters long
Configs == [JWT_SECRET : {"0123456789abcdef0123456789abcdef"}]

---------------------------------------------------------------------------
(* Spec: requests served one after another *)

Init ==
    /\ users = {}
    /\ nextID = 1
    /\ nTokens = 0
    /\ now = 0
    /\ config \in Configs
    /\ calls = [w \in Workers |-> Idle]
    /\ resp = NoCall
    /\ hist = NoHistory
    /\ metrics = NoRequests
    /\ served = <<>>
    /\ globalLimiter = NewIPRateLimiter(DefaultBurst)
    /\ limiters = <<>>
    /\ traffic = NoTraffic

\* what request r returns, and leaves behind, when it is served now
Outcome(r) ==
    ServiceCall(users, nextID, nTokens, now, config, NewCall(r.op, r))

Register ==
    \E r \in RegisterRequests :
        LET s == Outcome(r) IN
        /\ s.nTokens <= MaxTokens
        /\ users' = s.db
        /\ nextID' = s.nextID
        /\ nTokens' = s.nTokens
        /\ resp' = Completed(s.call, users, now)
        /\ hist' = Record(hist, users, s.call)
        /\ UNCHANGED <<rateVars, now, config, calls, metrics, served>>

Login ==
    \E r \in LoginRequests :
        LET s == Outcome(r) IN
        /\ s.nTokens <= MaxTokens
        /\ users' = s.db
        /\ nextID' = s.nextID
        /\ nTokens' = s.nTokens
        /\ resp' = Completed(s.call, users, now)
        /\ hist' = Record(hist, users, s.call)
        /\ UNCHANGED <<rateVars, now, config, calls, metrics, served>>

RefreshToken ==
    \E r \in RefreshTokenRequests :
        LET s == Outcome(r) IN
        /\ s.nTokens <= MaxTokens
        /\ users' = s.db
        /\ nextID' = s.nextID
        /\ nTokens' = s.nTokens
        /\ resp' = Completed(s.call, users, now)
        /\ hist' = Record(hist, users, s.call)
        /\ UNCHANGED <<rateVars, now, config, calls, metrics, served>>

ForgotPassword ==
    \E r \in ForgotPasswordRequests :
        LET s == Outcome(r) IN
        /\ s.nTokens <= MaxTokens
        /\ users' = s.db
        /\ nextID' = s.nextID
        /\ nTokens' = s.nTokens
        /\ resp' = Completed(s.call, users, now)
        /\ hist' = Record(hist, users, s.call)
        /\ UNCHANGED <<rateVars, now, config, calls, metrics, served>>

ResetPassword ==
    \E r \in ResetPasswordRequests :
        LET s == Outcome(r) IN
        /\ s.nTokens <= MaxTokens
        /\ users' = s.db
        /\ nextID' = s.nextID
        /\ nTokens' = s.nTokens
        /\ resp' = Completed(s.call, users, now)
        /\ hist' = Record(hist, users, s.call)
        /\ UNCHANGED <<rateVars, now, config, calls, metrics, served>>

Tick ==
    /\ NextInstant(now) <= LastInstant
    /\ now' = NextInstant(now)
    /\ UNCHANGED <<rateVars, users, nextID, nTokens, config, calls, resp, hist, metrics, served>>

Next ==
    \/ Register
    \/ Login
    \/ RefreshToken
    \/ ForgotPassword
    \/ ResetPassword
    \/ Tick

Spec == Init /\ [][Next]_vars

---------------------------------------------------------------------------
(* SessionSpec: the requests of Spec served one after another while the    *)
(* clock stands still: every reset token presented is within its lifetime  *)

SessionNext ==
    \/ Register
    \/ Login
    \/ RefreshToken
    \/ ForgotPassword
    \/ ResetPassword

SessionSpec == Init /\ [][SessionNext]_vars

---------------------------------------------------------------------------
(* StoreSpec: requests served one after another, and users deleted through *)
(* the repository in between.  The clock stands still: neither DeleteUser  *)
(* nor the lookups that authenticate a user read it.                       *)

Deletion ==
    \E u \in users :
        /\ users' = DeleteUser(users, u.ID)
        /\ resp' = [NoCall EXCEPT !.user = u.ID,
                                  !.req = [op |-> "DeleteUser"]]
        /\ hist' = [hist EXCEPT !.latest = {p \in @ : p[1] # u.ID},
                                !.deleted = @ \cup {u}]
        /\ UNCHANGED <<rateVars, nextID, nTokens, now, config, calls, metrics, served>>

StoreNext ==
    \/ Register
    \/ Login
    \/ RefreshToken
    \/ ForgotPassword
    \/ ResetPassword
    \/ Deletion

StoreSpec == Init /\ [][StoreNext]_vars

---------------------------------------------------------------------------
(* FaultSpec: registrations and logins served one after another, where an  *)
(* access of a Register call may be answered with an error                 *)

\* the accesses of Register that return an error the call handles
RegisterFaults == {"GetUserByEmail", "CreateUser", "rand.Read", "UpdateUser"}

RegisterFailing ==
    \E r \in RegisterRequests, fault \in RegisterFaults :
        LET s == ServiceCall(users, nextID, nTokens, now, config,
                             Failing(NewCall(r.op, r), {fault})) IN
        /\ s.nTokens <= MaxTokens
        /\ users' = s.db
        /\ nextID' = s.nextID
        /\ nTokens' = s.nTokens
        /\ resp' = Completed(s.call, users, now)
        /\ hist' = Record(hist, users, s.call)
        /\ UNCHANGED <<rateVars, now, config, calls, metrics, served>>

FaultNext == Register \/ RegisterFailing \/ Login

FaultSpec == Init /\ [][FaultNext]_vars

---------------------------------------------------------------------------
(* ConcSpec: every worker serves one request; the store accesses of the    *)
(* workers' calls interleave.  The table starts empty, or as the requests  *)
(* of an opening, served one after another, have left it.                  *)

Openings ==
    {<<>>,
     <<[Name |-> "John Doe", Email |-> "a@x.io", Password |-> "Passw0rd-one",
        op |-> "Register"]>>,
     <<[Name |-> "John Doe", Email |-> "a@x.io", Password |-> "Passw0rd-one",
        op |-> "Register"],
       [Email |-> "a@x.io", op |-> "ForgotPassword"]>>}

RECURSIVE ServeAll(_, _, _, _)
ServeAll(s, h, cfg, reqs) ==
    IF reqs = <<>>
    THEN [nextID |-> s.nextID, nTokens |-> s.nTokens, hist |-> h, db |-> s.db]
    ELSE LET r == Head(reqs)
             after == ServiceCall(s.db, s.nextID, s.nTokens, 0, cfg,
                                  NewCall(r.op, r))
         IN  ServeAll(after, Record(h, s.db, after.call), cfg,
                      Tail(reqs))

ConcInit ==
    /\ config \in Configs
    /\ \E opening \in Openings :
          LET s == ServeAll(After({}, 1, 0, Idle), NoHistory, config, opening)
          IN  /\ users = s.db
              /\ nextID = s.nextID
              /\ nTokens = s.nTokens
              /\ hist = s.hist
    /\ now = 0
    /\ calls = [w \in Workers |-> Idle]
    /\ resp = NoCall
    /\ metrics = NoRequests
    /\ served = <<>>
    /\ globalLimiter = NewIPRateLimiter(DefaultBurst)
    /\ limiters = <<>>
    /\ traffic = NoTraffic

Start(w, r) ==
    /\ calls[w].pc = "idle"
    /\ calls' = [calls EXCEPT ![w] = NewCall(r.op, r)]
    /\ UNCHANGED <<rateVars, users, nextID, nTokens, now, config, resp, hist, metrics, served>>

Begin ==
    \E w \in Workers :
        \/ \E r \in RegisterRequests : Start(w, r)
        \/ \E r \in LoginRequests : Start(w, r)
        \/ \E r \in RefreshTokenRequests : Start(w, r)
        \/ \E r \in ForgotPasswordRequests : Start(w, r)
        \/ \E r \in ResetPasswordRequests : Start(w, r)

Step ==
    \E w \in Workers :
        /\ calls[w].pc \notin {"idle", "done"}
        /\ LET s == ServiceStep(users, nextID, nTokens, now, config, calls[w])
           IN  /\ users' = s.db
               /\ nextID' = s.nextID
               /\ nTokens' = s.nTokens
               /\ calls' = [calls EXCEPT ![w] = s.call]
               /\ resp' = IF s.call.pc = "done" THEN Completed(s.call, users, now)
                          ELSE resp
               /\ hist' = Record(hist, users, s.call)
        /\ UNCHANGED <<rateVars, now, config, metrics, served>>

ConcNext == Begin \/ Step

ConcSpec == ConcInit /\ [][ConcNext]_vars

---------------------------------------------------------------------------
(* TokenSpec: requests to a route behind AuthMiddleware *)

\* the claims of a presented token: with or without user_id
PresentedClaims ==
    {[user_id |-> 1, exp |-> e] : e \in {1, AccessTokenTTL}}
        \cup {[exp |-> e] : e \in {1, AccessTokenTTL}}

BearerTokens ==
    {Malformed} \cup
    {SignedString(alg, key, claims) :
        alg \in {"HS256", "none", "RS256"},
        key \in {"", "0123456789abcdef0123456789abcdef", "forged"},
        claims \in PresentedClaims}

Headers ==
    {<<>>} \cup {<<scheme, token>> :
                    scheme \in {"Bearer", "Basic"}, token \in BearerTokens}

\* the users that access tokens are issued to
TokenHolders == {[ID |-> id, Email |-> email] : id \in 1..2, email \in Emails}

\* the access tokens that generateToken issues at time t
FreshTokens(cfg, t) == {generateToken(cfg, u, t).token : u \in TokenHolders}

\* the Authorization headers that a request may carry at time t: the
\* crafted ones, and those with a token issued at t
HeadersAt(t) ==
    Headers \cup {<<scheme, token>> :
                    scheme \in {"Bearer", "Basic"},
                    token \in FreshTokens(config, t)}

Protected ==
    \E authHeader \in HeadersAt(now) :
        /\ resp' = [req |-> [op |-> "AuthMiddleware",
                             Authorization |-> authHeader],
                    ctx |-> AuthMiddleware(config, authHeader, now)]
        /\ UNCHANGED <<rateVars, users, nextID, nTokens, now, config, calls, hist, metrics, served>>

TokenNext == Protected \/ Tick

TokenSpec == Init /\ [][TokenNext]_vars

---------------------------------------------------------------------------
(* MetricsSpec: requests through MetricsMiddleware, one after another *)

\* c.Next() runs the handler, which answers with statusCode; the middleware
\* then records the status
MetricsMiddleware ==
    \E statusCode \in StatusCodes :
        /\ Len(served) < MaxRequests
        /\ metrics' = RecordRequest(metrics, statusCode)
        /\ served' = Append(served, statusCode)
        /\ UNCHANGED <<rateVars, users, nextID, nTokens, now, config, calls, resp, hist>>

\* metrics.Reset()
Reset ==
    /\ metrics' = NoRequests
    /\ served' = <<>>
    /\ UNCHANGED <<rateVars, users, nextID, nTokens, now, config, calls, resp, hist>>

MetricsNext == MetricsMiddleware \/ Reset

MetricsSpec == Init /\ [][MetricsNext]_vars

---------------------------------------------------------------------------
(* RecordSpec: requests through MetricsMiddleware and GetMetrics calls on  *)
(* several goroutines.  Every sync/atomic operation is one step; the steps *)
(* of different goroutines interleave.  Reset is a test helper and is not  *)
(* called while the server runs.                                           *)

\* the status codes of the requests that overlap: one of each class
OverlappingStatusCodes == {101, 200, 500}

\* a request in MetricsMiddleware that has not been recorded to the end
InMiddleware(w) == calls[w].op = "MetricsMiddleware"

\* c.Next(): the handler runs and answers with statusCode
CNext ==
    \E w \in Workers, statusCode \in OverlappingStatusCodes :
        /\ calls[w].pc = "idle"
        /\ Len(served) + Cardinality({v \in Workers : InMiddleware(v)})
              < MaxRequests
        /\ calls' = [calls EXCEPT ![w] = [op |-> "MetricsMiddleware",
                                          pc |-> "RecordRequest",
                                          statusCode |-> statusCode]]
        /\ UNCHANGED <<rateVars, users, nextID, nTokens, now, config, resp, hist,
                       metrics, served>>

\* RecordRequest, first statement: atomic.AddInt64(&totalRequests, 1)
AddTotalRequests ==
    \E w \in Workers :
        /\ InMiddleware(w)
        /\ calls[w].pc = "RecordRequest"
        /\ metrics' = CountRequest(metrics)
        /\ calls' = [calls EXCEPT ![w].pc = "categorize"]
        /\ UNCHANGED <<rateVars, users, nextID, nTokens, now, config, resp, hist,
                       served>>

\* RecordRequest, second statement: the atomic add on the counter of the
\* status code's class; the request is complete
AddStatusRequests ==
    \E w \in Workers :
        /\ InMiddleware(w)
        /\ calls[w].pc = "categorize"
        /\ metrics' = CountStatus(metrics, calls[w].statusCode)
        /\ served' = Append(served, calls[w].statusCode)
        /\ calls' = [calls EXCEPT ![w] = Idle]
        /\ UNCHANGED <<rateVars, users, nextID, nTokens, now, config, resp, hist>>

\* a goroutine enters HealthService.GetMetrics
GetMetrics ==
    \E w \in Workers :
        /\ calls[w].pc = "idle"
        /\ calls' = [calls EXCEPT ![w] = [op |-> "GetMetrics",
                                          pc |-> "TotalRequests",
                                          out |-> NoRequests]]
        /\ UNCHANGED <<rateVars, users, nextID, nTokens, now, config, resp, hist,
                       metrics, served>>

\* TotalRequests: metrics.GetTotalRequests()
GetTotalRequests ==
    \E w \in Workers :
        /\ calls[w].op = "GetMetrics"
        /\ calls[w].pc = "TotalRequests"
        /\ calls' = [calls EXCEPT
                        ![w].out.totalRequests = metrics.totalRequests,
                        ![w].pc = "SuccessRequests"]
        /\ UNCHANGED <<rateVars, users, nextID, nTokens, now, config, resp, hist,
                       metrics, served>>

\* SuccessRequests: metrics.GetSuccessRequests()
GetSuccessRequests ==
    \E w \in Workers :
        /\ calls[w].op = "GetMetrics"
        /\ calls[w].pc = "SuccessRequests"
        /\ calls' = [calls EXCEPT
                        ![w].out.successRequests = metrics.successRequests,
                        ![w].pc = "ErrorRequests"]
        /\ UNCHANGED <<rateVars, users, nextID, nTokens, now, config, resp, hist,
                       metrics, served>>

\* ErrorRequests: metrics.GetErrorRequests(); the snapshot is returned
GetErrorRequests ==
    \E w \in Workers :
        /\ calls[w].op = "GetMetrics"
        /\ calls[w].pc = "ErrorRequests"
        /\ resp' = [req |-> [op |-> "GetMetrics"],
                    out |-> [calls[w].out EXCEPT
                                !.errorRequests = metrics.errorRequests]]
        /\ calls' = [calls EXCEPT ![w] = Idle]
        /\ UNCHANGED <<rateVars, users, nextID, nTokens, now, config, hist, metrics,
                       served>>

RecordNext ==
    \/ CNext
    \/ AddTotalRequests
    \/ AddStatusRequests
    \/ GetMetrics
    \/ GetTotalRequests
    \/ GetSuccessRequests
    \/ GetErrorRequests

RecordSpec == Init /\ [][RecordNext]_vars

---------------------------------------------------------------------------
(* RateSpec: requests through a rate limiting middleware of burst size b,  *)
(* one after another, the cleanup ticker firing between them               *)

RateInit ==
    /\ users = {}
    /\ nextID = 1
    /\ nTokens = 0
    /\ now = 0
    /\ config \in Configs
    /\ calls = [w \in Workers |-> Idle]
    /\ resp = NoCall
    /\ hist = NoHistory
    /\ metrics = NoRequests
    /\ served = <<>>
    /\ \E burst \in 1..MaxBurst : globalLimiter = NewIPRateLimiter(burst)
    /\ limiters = <<>>
    /\ traffic = NoTraffic

RateLimitMiddleware ==
    \E ip \in IPs :
        LET s == RateLimitMiddlewareWithConfig(globalLimiter, limiters, ip) IN
        /\ Arrivals < MaxArrivals
        /\ globalLimiter' = s.globalLimiter
        /\ limiters' = s.limiters
        /\ traffic' = Answered(traffic, ip, s.ctx)
        /\ UNCHANGED <<users, nextID, nTokens, now, config, calls, resp, hist,
                       metrics, served>>

\* the ticker of the cleanup goroutine fires
Cleanup ==
    /\ globalLimiter' = CleanupOldLimiters(globalLimiter, limiters)
    /\ UNCHANGED <<users, nextID, nTokens, now, config, calls, resp, hist,
                   metrics, served, limiters, traffic>>

\* time passes: every bucket that is not full gains a token
Refill ==
    /\ traffic.refills < MaxRefills
    /\ limiters' = Refilled(globalLimiter, limiters)
    /\ traffic' = [traffic EXCEPT !.refills = @ + 1]
    /\ UNCHANGED <<users, nextID, nTokens, now, config, calls, resp, hist,
                   metrics, served, globalLimiter>>

RateNext == RateLimitMiddleware \/ Cleanup \/ Refill

RateSpec == RateInit /\ [][RateNext]_vars

---------------------------------------------------------------------------
(* RateConcSpec: the requests are served by several goroutines, and the    *)
(* cleanup goroutine runs beside them.  GetLimiter and CleanupOldLimiters  *)
(* hold the lock of the IPRateLimiter, Allow the lock of its rate.Limiter; *)
(* each is one step.                                                       *)

\* ip := c.ClientIP(); limiter := GetLimiter(ip)
GetLimiterStep ==
    \E w \in Workers, ip \in IPs :
        LET s == GetLimiter(globalLimiter, limiters, ip) IN
        /\ calls[w].pc = "idle"
        /\ Arrivals + Cardinality({v \in Workers : calls[v].pc = "Allow"})
              < MaxArrivals
        /\ globalLimiter' = s.globalLimiter
        /\ limiters' = s.limiters
        /\ calls' = [calls EXCEPT ![w] = [op |-> "RateLimitMiddleware",
                                          pc |-> "Allow", ip |-> ip,
                                          limiter |-> s.limiter]]
        /\ UNCHANGED <<users, nextID, nTokens, now, config, resp, hist,
                       metrics, served, traffic>>

\* limiter.Allow() and the answer
AllowStep ==
    \E w \in Workers :
        /\ calls[w].pc = "Allow"
        /\ LET s == Allow(limiters, calls[w].limiter) IN
           /\ limiters' = s.limiters
           /\ traffic' = Answered(traffic, calls[w].ip, RateLimitAnswer(s.ok))
        /\ calls' = [calls EXCEPT ![w] = Idle]
        /\ UNCHANGED <<users, nextID, nTokens, now, config, resp, hist,
                       metrics, served, globalLimiter>>

RateConcNext == GetLimiterStep \/ AllowStep \/ Cleanup \/ Refill

RateConcSpec == RateInit /\ [][RateConcNext]_vars

---------------------------------------------------------------------------
(* Refresh token rotation *)

\* C1: once an exchange presenting refresh token T has succeeded, every
\* later exchange presenting T fails with InvalidRefreshToken, whatever has
\* been served in between
ExchangedTokenStaysRejected ==
    \A token \in hist.exchanged :
        Outcome([RefreshToken |-> token, op |-> "RefreshToken"]).call.err
            = ErrInvalidRefreshToken

\* a token that was exchanged earlier has been presented again and refused
ExchangedTokenPresentedAgain ==
    /\ resp.req.op = "RefreshToken"
    /\ resp.req.RefreshToken \in hist.exchanged
    /\ resp.err = ErrInvalidRefreshToken

\* C2: of two exchanges that present the same refresh token and run
\* together, at most one succeeds and the other fails with
\* InvalidRefreshToken
AtMostOneConcurrentExchangeSucceeds ==
    \A w1 \in Workers : \A w2 \in Workers \ {w1} :
        ( /\ calls[w1].op = "RefreshToken" /\ calls[w1].pc = "done"
          /\ calls[w2].op = "RefreshToken" /\ calls[w2].pc = "done"
          /\ calls[w1].req.RefreshToken = calls[w2].req.RefreshToken
          /\ calls[w1].err = OK )
        => calls[w2].err = ErrInvalidRefreshToken

\* C18: RefreshToken called with the empty string fails with
\* InvalidRefreshToken and issues no tokens, also while a user's RefreshToken
\* field is empty
EmptyRefreshTokenRefused ==
    \A w \in Workers :
        ( /\ calls[w].op = "RefreshToken"
          /\ calls[w].req.RefreshToken = 0
          /\ calls[w].pc # "lookup" )
        => /\ calls[w].pc = "done"
           /\ calls[w].err = ErrInvalidRefreshToken
           /\ calls[w].out = Nil

\* the user rows with primary key id
Row(id) == {u \in users : u.ID = id}

\* the refresh tokens that an exchange would accept now for the user id
Accepted(id) ==
    {token \in TokenStrings :
        LET c == Outcome([RefreshToken |-> token,
                          op |-> "RefreshToken"]).call
        IN  c.err = OK /\ c.user.ID = id}

\* C3: every user has at most one refresh token that an exchange would
\* accept; a refresh token issued to a user before the user's latest Login
\* or exchange is rejected with InvalidRefreshToken
OneValidRefreshTokenPerUser ==
    /\ \A u \in users : Cardinality(Accepted(u.ID)) <= 1
    /\ \A p \in hist.issued \ hist.latest :
          Outcome([RefreshToken |-> p[2], op |-> "RefreshToken"]).call.err
              = ErrInvalidRefreshToken

\* a token that a later Login (not an exchange) replaced has been presented
\* and refused
TokenReplacedByLoginRefused ==
    /\ resp.req.op = "RefreshToken"
    /\ resp.err = ErrInvalidRefreshToken
    /\ resp.req.RefreshToken \notin hist.exchanged
    /\ \E p \in hist.issued \ hist.latest : p[2] = resp.req.RefreshToken

\* C14: the refresh token that a successful Register, Login or exchange
\* returned is the one stored for the user: presented before any other Login
\* or exchange of that user, it is exchanged for that user, and the refresh
\* token returned differs from the one presented
ReturnedRefreshTokenIsStored ==
    \A p \in hist.latest :
        LET c == Outcome([RefreshToken |-> p[2], op |-> "RefreshToken"]).call
        IN  /\ \E u \in Row(p[1]) : u.RefreshToken = p[2]
            /\ c.err = OK
            /\ c.user.ID = p[1]
            /\ c.out.RefreshToken # p[2]

\* a refresh token that an exchange returned has been exchanged in turn, and
\* the user now holds the token that the second exchange returned
ReturnedTokenExchanged ==
    /\ resp.req.op = "RefreshToken"
    /\ resp.err = OK
    /\ resp.req.RefreshToken \in hist.exchanged
    /\ \E p \in hist.latest :
          /\ p[1] = resp.user
          /\ p[2] # resp.req.RefreshToken
          /\ \E u \in Row(p[1]) : u.RefreshToken = p[2]
    /\ Cardinality({p \in hist.issued : p[1] = resp.user}) = 3

\* C15: the RefreshToken stored for a user changes only through a
\* successful Login or exchange of that user, and a row comes with its
\* first one only through Register; ForgotPassword and ResetPassword, failed
\* or successful, leave every stored RefreshToken as it is
RefreshTokenFrame ==
    [][\A v \in users' :
          /\ \A u \in users :
                (u.ID = v.ID /\ u.RefreshToken # v.RefreshToken)
                => /\ resp'.req.op \in {"Login", "RefreshToken"}
                   /\ resp'.err = OK
                   /\ resp'.user = v.ID
          /\ (\A u \in users : u.ID # v.ID)
                => /\ resp'.req.op = "Register"
                   /\ resp'.err = OK
                   /\ resp'.user = v.ID]_vars

\* a ResetPassword has succeeded for a user who holds, before and after, the
\* refresh token that was returned for the user last
RefreshTokenKeptThroughReset ==
    /\ resp.req.op = "ResetPassword"
    /\ resp.err = OK
    /\ \E u \in Row(resp.user) :
          /\ u.RefreshToken # 0
          /\ <<u.ID, u.RefreshToken>> \in hist.latest

---------------------------------------------------------------------------
(* Password reset *)

\* C4: once a ResetPassword presenting reset token T has succeeded, every
\* later ResetPassword presenting T fails with InvalidResetToken; the
\* successful reset has cleared the user's reset token and expiry
ConsumedResetTokenStaysRejected ==
    /\ \A token \in hist.consumed, password \in Passwords :
          Outcome([op |-> "ResetPassword", Token |-> token,
                   NewPassword |-> password]).call.err
              = ErrInvalidResetToken
    /\ (resp.req.op = "ResetPassword" /\ resp.err = OK)
          => \A u \in Row(resp.user) :
                /\ u.PasswordResetToken = 0
                /\ u.PasswordResetExpiry = NoExpiry

\* a reset token that was used earlier has been presented again and refused
ConsumedResetTokenPresentedAgain ==
    /\ resp.req.op = "ResetPassword"
    /\ resp.req.Token \in hist.consumed
    /\ resp.err = ErrInvalidResetToken

\* what a ResetPassword presenting the pending token of user u would return
ResetOutcome(u, password) ==
    Outcome([op |-> "ResetPassword", Token |-> u.PasswordResetToken,
             NewPassword |-> password]).call.err

\* C5 as stated: ResetPassword with a token a user holds fails with
\* ResetTokenExpired when the time is the stored expiry or later, and
\* succeeds one minute before the expiry
ExpiredFromTheExpiryInstantOn ==
    \A u \in users, password \in Passwords :
        u.PasswordResetToken # 0 =>
            /\ now >= u.PasswordResetExpiry
                  => ResetOutcome(u, password) = ErrResetTokenExpired
            /\ now = u.PasswordResetExpiry - 1
                  => ResetOutcome(u, password) = OK

\* C5 as amended: ResetPassword with a token a user holds fails with
\* ResetTokenExpired when the time is later than the stored expiry, and
\* succeeds at the expiry instant itself and at every time before it
ExpiredOnlyAfterTheExpiryInstant ==
    \A u \in users, password \in Passwords :
        u.PasswordResetToken # 0 =>
            /\ now > u.PasswordResetExpiry
                  => ResetOutcome(u, password) = ErrResetTokenExpired
            /\ now <= u.PasswordResetExpiry
                  => ResetOutcome(u, password) = OK

\* a ResetPassword has succeeded at the very minute its token expired
ResetAtTheExpiryInstant ==
    /\ resp.req.op = "ResetPassword"
    /\ resp.err = OK
    /\ resp.left = {0}

\* C16: a pending reset token and its expiry stay stored as they are until
\* a successful ResetPassword consumes the token or a ForgotPassword for the
\* user replaces it; time passing the expiry does not remove them, and a
\* ResetPassword that fails with ResetTokenExpired leaves the table as it
\* was, so that the same request fails with ResetTokenExpired again
PendingResetPersists ==
    [][/\ \A u \in users :
             u.PasswordResetToken # 0 =>
                \/ \E v \in users' :
                      /\ v.ID = u.ID
                      /\ v.PasswordResetToken = u.PasswordResetToken
                      /\ v.PasswordResetExpiry = u.PasswordResetExpiry
                \/ /\ resp'.req.op = "ResetPassword"
                   /\ resp'.err = OK
                   /\ resp'.req.Token = u.PasswordResetToken
                \/ /\ resp'.req.op = "ForgotPassword"
                   /\ resp'.err = OK
                   /\ resp'.user = u.ID
       /\ (resp'.req.op = "ResetPassword"
              /\ resp'.err = ErrResetTokenExpired)
          => /\ users' = users
             /\ Outcome(resp.req)'.call.err = ErrResetTokenExpired
             /\ Outcome(resp.req)'.db = users']_vars

\* a ResetPassword has failed with ResetTokenExpired, and the user still
\* holds the token it presented, with its expiry in the past
ExpiredTokenStillStored ==
    /\ resp.req.op = "ResetPassword"
    /\ resp.err = ErrResetTokenExpired
    /\ resp.req.Token # 0
    /\ \E u \in Row(resp.user) :
          /\ u.PasswordResetToken = resp.req.Token
          /\ u.PasswordResetExpiry < now

\* the reset tokens (not empty) that ResetPassword would find user id by
Pending(id) ==
    {token \in TokenStrings \ {0} :
        Outcome([op |-> "ResetPassword", Token |-> token,
                 NewPassword |-> "Passw0rd-one"]).call.user.ID = id}

\* C8: a user has at most one pending reset token; a ForgotPassword for a
\* user with a pending token stores the new token and its expiry in place
\* of the old ones, and a later ResetPassword presenting the old token fails
\* with InvalidResetToken
OnePendingResetPerUser ==
    /\ \A u \in users : Cardinality(Pending(u.ID)) <= 1
    /\ \A token \in hist.replaced, password \in Passwords :
          Outcome([op |-> "ResetPassword", Token |-> token,
                   NewPassword |-> password]).call.err
              = ErrInvalidResetToken
    /\ (resp.req.op = "ForgotPassword" /\ resp.err = OK)
          => \A u \in Row(resp.user) :
                /\ u.PasswordResetToken \in
                      (1..nTokens) \ (hist.replaced \cup hist.consumed)
                /\ u.PasswordResetExpiry - ResetTokenTTL \in 0..now

\* a reset token that a later ForgotPassword replaced has been presented
\* and refused
ReplacedResetTokenRefused ==
    /\ resp.req.op = "ResetPassword"
    /\ resp.req.Token \in hist.replaced
    /\ resp.err = ErrInvalidResetToken

---------------------------------------------------------------------------
(* What the caller can tell *)

\* status, message and shape of the data of a response
Visible(response) ==
    [code |-> response.code, message |-> response.message,
     data |-> {member[1] : member \in response.data}]

Held(email) == \E u \in users : u.Email = email

\* C6: the ForgotPassword response has the same status, message and shape
\* of data for an email a user holds as for an email no user holds
ForgotPasswordMasksExistence ==
    \A known \in Emails, unknown \in Emails, production \in BOOLEAN :
        (Held(known) /\ ~Held(unknown)) =>
            Visible(ForgotPasswordController(production,
                Outcome([Email |-> known, op |-> "ForgotPassword"]).call))
          = Visible(ForgotPasswordController(production,
                Outcome([Email |-> unknown, op |-> "ForgotPassword"]).call))

\* the request served last went through AuthMiddleware with a bearer token
\* that ValidateToken refused
BearerTokenRefused ==
    /\ resp.req.op = "AuthMiddleware"
    /\ Len(resp.req.Authorization) = 2
    /\ resp.req.Authorization[1] = "Bearer"
    /\ ~resp.ctx.next

\* C7: ValidateToken returns one and the same error for every token it
\* refuses (malformed, wrong signature, expired, wrong algorithm, no
\* user_id), and the 401 that AuthMiddleware sends is the same for all
RefusalsAreGeneric ==
    BearerTokenRefused =>
        \A token \in BearerTokens :
            LET validated == ValidateToken(config, token, now) IN
            validated.err # OK =>
                /\ resp.ctx.response.errors = {<<"error", validated.err>>}
                /\ AuthMiddleware(config, <<"Bearer", token>>, now).response
                      = resp.ctx.response

\* an issued token signed anew with another secret, and with its header
\* rewritten to the unsigned "none"
Forged(token) ==
    {[token EXCEPT !.key = "forged"], [token EXCEPT !.alg = "none", !.key = ""]}

OnlyValidBearerReachesHandler ==
    \A authHeader \in HeadersAt(now) :
        LET ctx == AuthMiddleware(config, authHeader, now)
            bearer == Len(authHeader) = 2 /\ authHeader[1] = "Bearer"
        IN  /\ ctx.next <=>
                  (bearer /\ ValidateToken(config, authHeader[2], now).err = OK)
            /\ ctx.next =>
                  /\ authHeader[2].claims.user_id = ctx.user_id
                  /\ ctx.response = JSONNull
            /\ ~ctx.next =>
                  /\ ctx.response.code = 401
                  /\ ~ctx.response.success

\* a request that carried a token ValidateToken accepts, under another
\* scheme than Bearer, has been answered with 401
ValidTokenWrongScheme ==
    /\ resp.req.op = "AuthMiddleware"
    /\ Len(resp.req.Authorization) = 2
    /\ resp.req.Authorization[1] = "Basic"
    /\ ValidateToken(config, resp.req.Authorization[2], now).err = OK
    /\ ~resp.ctx.next
    /\ resp.ctx.response.code = 401

\* C9: Register with an email a stored user holds fails with
\* EmailAlreadyExists (409 Conflict) and leaves the table as it is, with one
\* user of that email
RegisterRefusesHeldEmail ==
    \A r \in RegisterRequests :
        Held(r.Email) =>
            LET s == Outcome(r) IN
            /\ s.call.err = ErrEmailAlreadyExists
            /\ RegisterController(s.call).code = 409
            /\ s.db = users
            /\ Cardinality({u \in s.db : u.Email = r.Email}) = 1

\* a Register for an email that was held has been refused
HeldEmailRefused ==
    /\ resp.req.op = "Register"
    /\ resp.err = ErrEmailAlreadyExists
    /\ Cardinality({u \in users : u.Email = resp.req.Email}) = 1

\* C10: Login returns InvalidCredentials, and the controller the same
\* response, for an email no user holds and for a user's email with a wrong
\* password
LoginFailuresAlike ==
    \A unknown \in LoginRequests, wrong \in LoginRequests :
        ( /\ ~Held(unknown.Email)
          /\ \E u \in users : /\ u.Email = wrong.Email
                              /\ u.Password # hashPassword(wrong.Password) )
        => /\ Outcome(unknown).call.err = ErrInvalidCredentials
           /\ Outcome(wrong).call.err = ErrInvalidCredentials
           /\ LoginController(Outcome(unknown).call)
                 = LoginController(Outcome(wrong).call)

\* a Login with a wrong password for a held email has been refused while
\* another email is held by no user
WrongPasswordRefused ==
    /\ resp.req.op = "Login"
    /\ resp.err = ErrInvalidCredentials
    /\ Held(resp.req.Email)
    /\ \E email \in Emails : ~Held(email)

---------------------------------------------------------------------------
(* Passwords *)

\* C12: the Password stored for a user is a bcrypt hash of a password that
\* Register or ResetPassword was given, never the plaintext itself
StoredPasswordIsHashed ==
    \A u \in users :
        /\ u.Password \notin Passwords
        /\ \E password \in Passwords : verifyPassword(u.Password, password)

\* a ResetPassword has stored its new password, and a Register its own
PasswordsStored ==
    /\ resp.req.op = "ResetPassword"
    /\ resp.err = OK
    /\ \E u \in Row(resp.user) :
          verifyPassword(u.Password, resp.req.NewPassword)
    /\ Cardinality(users) = 2

\* what a Login with email and password would return
LoginOutcome(email, password) ==
    Outcome([Email |-> email, Password |-> password, op |-> "Login"]).call.err

\* C13 as stated: after a successful ResetPassword with new password P for
\* a user, Login with the user's previous password fails with
\* InvalidCredentials and Login with P succeeds
PreviousPasswordRefusedAfterReset ==
    (resp.req.op = "ResetPassword" /\ resp.err = OK) =>
        \A u \in Row(resp.user) :
            /\ LoginOutcome(u.Email, resp.req.NewPassword) = OK
            /\ \A previous \in Passwords :
                  (\E hashed \in resp.was : verifyPassword(hashed, previous))
                  => LoginOutcome(u.Email, previous) = ErrInvalidCredentials

\* C13 as amended: after a successful ResetPassword with new password P for
\* a user, Login with P succeeds and, when P is not the user's previous
\* password, Login with the previous password fails with InvalidCredentials
PasswordReplacedByReset ==
    (resp.req.op = "ResetPassword" /\ resp.err = OK) =>
        \A u \in Row(resp.user) :
            /\ LoginOutcome(u.Email, resp.req.NewPassword) = OK
            /\ \A previous \in Passwords \ {resp.req.NewPassword} :
                  (\E hashed \in resp.was : verifyPassword(hashed, previous))
                  => LoginOutcome(u.Email, previous) = ErrInvalidCredentials

\* a ResetPassword has succeeded with a password other than the one the
\* user had
PasswordChangedByReset ==
    /\ resp.req.op = "ResetPassword"
    /\ resp.err = OK
    /\ \E hashed \in resp.was :
          ~verifyPassword(hashed, resp.req.NewPassword)
    /\ Row(resp.user) # {}

---------------------------------------------------------------------------
(* Deleted users *)

\* C17: a user deleted through DeleteUser cannot authenticate: no Login and
\* no exchange succeeds as that user; Login with the user's email and
\* password fails with InvalidCredentials (as long as nobody has registered
\* the email anew), and an exchange presenting the refresh token the user
\* held fails with InvalidRefreshToken
DeletedUserCannotAuthenticate ==
    /\ \A r \in LoginRequests, d \in hist.deleted :
          Outcome(r).call.err = OK => Outcome(r).call.user.ID # d.ID
    /\ \A r \in RefreshTokenRequests, d \in hist.deleted :
          Outcome(r).call.err = OK => Outcome(r).call.user.ID # d.ID
    /\ \A d \in hist.deleted :
          /\ \A password \in Passwords :
                (verifyPassword(d.Password, password) /\ ~Held(d.Email))
                => LoginOutcome(d.Email, password) = ErrInvalidCredentials
          /\ Outcome([RefreshToken |-> d.RefreshToken,
                      op |-> "RefreshToken"]).call.err
                = ErrInvalidRefreshToken

\* a Login with the email and the password of a deleted user has been
\* refused
DeletedUserRefused ==
    /\ resp.req.op = "Login"
    /\ resp.err = ErrInvalidCredentials
    /\ \E d \in hist.deleted :
          /\ d.Email = resp.req.Email
          /\ verifyPassword(d.Password, resp.req.Password)

---------------------------------------------------------------------------
(* Request metrics *)

\* how many of the requests recorded since the last Reset ended with a
\* status code in codes
Ended(codes) == Cardinality({i \in 1..Len(served) : served[i] \in codes})

\* C20: after any sequence of requests through MetricsMiddleware since the
\* last Reset, total_requests is the number of requests completed,
\* success_requests the number that ended with a 2xx or 3xx status and
\* error_requests the number that ended with a 4xx or 5xx status
CountersMatchRequests ==
    /\ metrics.totalRequests = Len(served)
    /\ metrics.successRequests = Ended(200..399)
    /\ metrics.errorRequests = Ended(400..599)

\* requests of three kinds have been recorded: one redirected, one refused
\* and one that ended with neither a success nor an error status
MixedRequestsRecorded ==
    /\ Ended(300..399) > 0
    /\ Ended(400..599) > 0
    /\ Ended(100..199) > 0
    /\ metrics.totalRequests = 3

\* the requests that have added to totalRequests and not yet to the counter
\* of their class
Counted == {w \in Workers : InMiddleware(w) /\ calls[w].pc = "categorize"}

\* C21: no increment of total_requests is lost when requests pass through
\* MetricsMiddleware concurrently: in every interleaving total_requests is
\* the number of requests that have made their increment, so that once all
\* N requests have completed it has grown by exactly N
NoIncrementLost ==
    /\ metrics.totalRequests = Len(served) + Cardinality(Counted)
    /\ (\A w \in Workers : ~InMiddleware(w))
          => metrics.totalRequests = Len(served)

\* every goroutine is in RecordRequest at once, each has made its increment
\* after an earlier request completed, and all of them are in the total
ConcurrentRequestsCounted ==
    /\ Counted = Workers
    /\ Len(served) > 0
    /\ metrics.totalRequests = Len(served) + MaxWorkers

\* C29: in every snapshot that GetMetrics returns, also one taken while
\* requests are being recorded, success_requests plus error_requests does
\* not exceed total_requests
SnapshotWithinTotal ==
    resp.req.op = "GetMetrics"
        => resp.out.successRequests + resp.out.errorRequests
              <= resp.out.totalRequests

---------------------------------------------------------------------------
(* Rate limiting *)

\* the answers to ip's requests so far that let the request reach the handler
Passed(ip) ==
    {i \in 1..Len(traffic.answers[ip]) : traffic.answers[ip][i].next}

\* C22: of the requests from one IP that arrive before any token is
\* refilled, the first b (the burst size) reach the handler, and every
\* further one is answered with 429 and does not reach the handler
BurstThenRefused ==
    traffic.refills = 0 =>
        \A ip \in IPs :
            \A i \in 1..Len(traffic.answers[ip]) :
                LET ctx == traffic.answers[ip][i] IN
                IF i <= globalLimiter.b
                THEN ctx.next /\ ctx.response = JSONNull
                ELSE ~ctx.next /\ ctx.response.code = 429

\* more requests than the burst size have arrived from one IP with no token
\* refilled, and the last of them was refused
RequestBeyondBurstRefused ==
    /\ traffic.refills = 0
    /\ \E ip \in IPs :
          /\ Len(traffic.answers[ip]) > globalLimiter.b
          /\ globalLimiter.b > 1
          /\ ~traffic.answers[ip][Len(traffic.answers[ip])].next

\* C30: the cleanup of idle limiters never lets an IP exceed its limit: in
\* every interleaving of CleanupOldLimiters with requests, at most b (the
\* burst size) requests from one IP are allowed while no token is refilled
CleanupKeepsTheLimit ==
    traffic.refills = 0 =>
        \A ip \in IPs : Cardinality(Passed(ip)) <= globalLimiter.b

---------------------------------------------------------------------------
(* Overlapping calls for one user *)

\* the refresh tokens that a later Login or exchange of their user has
\* rotated out
RotatedOut == {p[2] : p \in hist.issued \ hist.latest}

\* C23: the full-row write of a ForgotPassword or ResetPassword that
\* overlaps a Login or an exchange of the same user restores no older
\* refresh token: a token that was rotated out is rejected after the write
\* as it was before
ResetWriteRestoresNoRefreshToken ==
    [][\A w \in Workers :
          ( /\ calls[w].op \in {"ForgotPassword", "ResetPassword"}
            /\ calls[w].pc = "save"
            /\ calls'[w].pc = "done" )
          => \A token \in RotatedOut :
                Outcome([RefreshToken |-> token,
                         op |-> "RefreshToken"]).call.err
                    = ErrInvalidRefreshToken
                => Outcome([RefreshToken |-> token,
                            op |-> "RefreshToken"])'.call.err
                       = ErrInvalidRefreshToken]_vars

\* C24: of two ResetPassword calls that present the same valid reset token
\* and run together, at most one succeeds; the other fails with
\* InvalidResetToken and leaves the password alone
AtMostOneConcurrentResetSucceeds ==
    \A w1 \in Workers : \A w2 \in Workers \ {w1} :
        ( /\ calls[w1].op = "ResetPassword" /\ calls[w1].pc = "done"
          /\ calls[w2].op = "ResetPassword" /\ calls[w2].pc = "done"
          /\ calls[w1].req.Token = calls[w2].req.Token
          /\ calls[w1].err = OK )
        => calls[w2].err = ErrInvalidResetToken

\* C25: of two Register calls with the same email that run together, at
\* most one creates a user with that email; when one succeeds the other
\* fails with EmailAlreadyExists, and neither fails with an internal error
OneConcurrentRegisterSucceeds ==
    \A w1 \in Workers : \A w2 \in Workers \ {w1} :
        ( /\ calls[w1].op = "Register" /\ calls[w1].pc = "done"
          /\ calls[w2].op = "Register" /\ calls[w2].pc = "done"
          /\ calls[w1].req.Email = calls[w2].req.Email )
        => /\ Cardinality({u \in users :
                              u.Email = calls[w1].req.Email}) <= 1
           /\ calls[w1].err = OK => calls[w2].err = ErrEmailAlreadyExists
           /\ calls[w2].err \in {OK, ErrEmailAlreadyExists}

---------------------------------------------------------------------------
(* Failed calls *)

\* C26: a Register that returns an error has persisted no user with the
\* requested email, so that the same registration, tried again, is not
\* refused with EmailAlreadyExists unless the email was held before
FailedRegisterPersistsNothing ==
    [][( /\ resp'.req.op = "Register"
         /\ resp'.err # OK )
       => /\ {u \in users' : u.Email = resp'.req.Email}
                = {u \in users : u.Email = resp'.req.Email}
          /\ ~Held(resp'.req.Email)
                => Outcome(resp.req)'.call.err # ErrEmailAlreadyExists]_vars

\* the sentinel errors that a call returns when it refuses the request
ClassifiedErrors ==
    {ErrEmailAlreadyExists, ErrInvalidCredentials, ErrInvalidRefreshToken,
     ErrInvalidResetToken, ErrResetTokenExpired, ErrUserNotFound}

\* C27: an auth operation that fails with a classified error
\* (EmailAlreadyExists, InvalidCredentials, InvalidRefreshToken,
\* InvalidResetToken, ResetTokenExpired, UserNotFound) leaves every stored
\* user record exactly as it was before the call
ClassifiedFailureWritesNothing ==
    [][( /\ resp'.req.op \in {"Register", "Login", "RefreshToken",
                              "ForgotPassword", "ResetPassword"}
         /\ resp'.err \in ClassifiedErrors )
       => users' = users]_vars

\* a ResetPassword presenting a token nobody holds has been refused while a
\* user has a reset pending and holds a refresh token
RefusedWhileRecordsHeld ==
    /\ resp.req.op = "ResetPassword"
    /\ resp.err = ErrInvalidResetToken
    /\ \E u \in users : u.PasswordResetToken # 0 /\ u.RefreshToken # 0

\* C28: ResetPassword called with the empty token string fails with
\* InvalidResetToken in every state, also when users hold an empty
\* PasswordResetToken; it never returns ResetTokenExpired and changes no
\* password
EmptyResetTokenRefused ==
    \A password \in Passwords :
        LET s == Outcome([op |-> "ResetPassword", Token |-> 0,
                          NewPassword |-> password])
        IN  /\ s.call.err = ErrInvalidResetToken
            /\ s.db = users

====
